---- MODULE Spec2Model ----
(***************************************************************************)
(* Model of the validator of the time-series prediction subnet:            *)
(*   - ByBitData.get_data / get_data_and_structure_data_points             *)
(*     (src/data_generator/financial_markets_generator/bybit_data.py)      *)
(*   - run_time_series_validation and the __main__ scheduler loop          *)
(*     (src/neurons/validator.py)                                          *)
(* Four specifications share the variables:                                *)
(*   SpecFetch  one call of get_data_and_structure_data_points             *)
(*   Spec       the scheduler loop driving run_time_series_validation      *)
(*   SpecBatch  run_time_series_validation applied to a given batch        *)
(*   SpecSteps  Spec with the ledger read of a workflow as its own step    *)
(***************************************************************************)
EXTENDS Integers, Sequences, FiniteSets, TLC

VARIABLES
    \* ---- ByBitData.get_data ----
    gd_stack,     \* active get_data frames, outermost first (each: its arguments)
    gd_log,       \* one entry per requests.get attempt: the response it got
    gd_sleeps,    \* the arguments of time.sleep, in order
    gd_result,    \* what the outermost get_data call delivered to its caller
    gdsdp_pc,     \* position of get_data_and_structure_data_points
    data_structure, \* the data_structure argument (list of feature columns)
    \* ---- validator ----
    ledger,       \* persisted CMW ledger (ValiUtils.get_vali_records)
    files,        \* persisted prediction files (vali predictions dir)
    elapsed,      \* request uuids whose prediction window end has passed
    pc,           \* "idle" (main loop) | "running" (in the batch) | "crashed"
    vali_requests,\* the batch handed to run_time_series_validation
    idx,          \* index of the next request of the batch
    ticks,        \* number of scheduler ticks taken
    next_uuid,    \* source of fresh uuid4 values
    emitted,      \* what the last scheduler tick saw and emitted
    last,         \* record of the last request workflow that ran
    held          \* ledger copies read by get_vali_records, not yet written back

fetch_vars == <<gd_stack, gd_log, gd_sleeps, gd_result, gdsdp_pc, data_structure>>
vali_vars  == <<ledger, files, elapsed, pc, vali_requests, idx, ticks, next_uuid,
                emitted, last, held>>
vars == <<fetch_vars, vali_vars>>

(***************************************************************************)
(* Bounds of the model                                                     *)
(***************************************************************************)
MaxRows == 1          \* longest kline row list a response carries
MaxRanges == 2        \* number of distinct ts_range arguments tried

(***************************************************************************)
(* Program constants                                                       *)
(***************************************************************************)
MaxRetries == 5       \* bybit_data.py:36   retries < 5
DefaultLimit == 1000  \* bybit_data.py:24   limit=1000
StatusOK == 200       \* bybit_data.py:31

Min(a, b) == IF a < b THEN a ELSE b
EmptyFn == [x \in {} |-> 0]

(***************************************************************************)
(* ByBitData                                                               *)
(***************************************************************************)
Symbols == {"BTCUSD"}
TsRanges == {<<r, r + 1>> : r \in 1..MaxRanges}
StatusCodes == {StatusOK, 500}

\* one kline row: [startTime, open, high, low, close, volume]
Row(r) == <<r, 10 + r, 20 + r, 30 + r, 40 + r, 50 + r>>
RowLists == {[i \in 1..n |-> Row(i)] : n \in 0..MaxRows}

\* response bodies: a well-formed kline body, or an error body without "result"
Bodies == {[result |-> [list |-> rows]] : rows \in RowLists}
            \cup {[retMsg |-> "error"]}

\* what requests.get(url) can do: raise (timeout / transport), or answer
Responses == {[kind |-> "transport"]}
               \cup {[kind |-> "http", status_code |-> s, body |-> b] :
                        s \in StatusCodes, b \in Bodies}

\* response.json()["result"]["list"] raises unless both keys are present
JsonListOk(resp) ==
    /\ "result" \in DOMAIN resp.body
    /\ "list" \in DOMAIN resp.body.result

\* lines 31-34: the try block returns iff status 200 and the body parses
TryBlockReturns(resp) == resp.status_code = StatusOK /\ JsonListOk(resp)

\* line 36
CanRetryOffByOne(retries) == retries <= MaxRetries
CanRetry(retries) == retries < MaxRetries

Pending == [kind |-> "pending", rows |-> <<>>]
Returned(rows) == [kind |-> "rows", rows |-> rows]
ReturnedNone == [kind |-> "None", rows |-> <<>>]
Raised(exc) == [kind |-> exc, rows |-> <<>>]

\* the value a frame at the given depth hands to the outermost caller when
\* its try block returns rows: the outermost frame returns them (line 32);
\* a frame entered by the recursive call of line 40 returns them to a caller
\* that drops them and falls off the end of get_data, so every outer frame
\* returns None
Delivered(depth, rows) == IF depth = 1 THEN Returned(rows) ELSE ReturnedNone

Top == gd_stack[Len(gd_stack)]

\* get_data_and_structure_data_points line 45: bd = self.get_data(symbol=..,
\* start=ts_range[0], end=ts_range[1])
CallGetData(symbol, ts_range) ==
    /\ gdsdp_pc = "idle"
    /\ gd_stack' = <<[symbol |-> symbol, start |-> ts_range[1], end |-> ts_range[2],
                      retries |-> 0, limit |-> DefaultLimit]>>
    /\ gdsdp_pc' = "get_data"
    /\ UNCHANGED <<vali_vars, gd_log, gd_sleeps, gd_result, data_structure>>

\* line 28, outside the try: an exception of requests.get leaves get_data and
\* every enclosing frame (the recursive call of line 40 is in no try block)
AttemptTransport ==
    /\ gdsdp_pc = "get_data" /\ gd_stack # <<>>
    /\ gd_log' = Append(gd_log, [args |-> Top, resp |-> [kind |-> "transport"]])
    /\ gd_stack' = <<>>
    /\ gd_result' = Raised("RequestException")
    /\ UNCHANGED <<vali_vars, gd_sleeps, gdsdp_pc, data_structure>>

\* lines 31-32: status 200 and a parsable body
AttemptOk(resp) ==
    /\ gdsdp_pc = "get_data" /\ gd_stack # <<>>
    /\ resp.kind = "http" /\ TryBlockReturns(resp)
    /\ gd_log' = Append(gd_log, [args |-> Top, resp |-> resp])
    /\ gd_result' = Delivered(Len(gd_stack), resp.body.result.list)
    /\ gd_stack' = <<>>
    /\ UNCHANGED <<vali_vars, gd_sleeps, gdsdp_pc, data_structure>>

\* lines 33-40: the try block raised and retries < 5: sleep, recurse
AttemptFailRetry(resp) ==
    /\ gdsdp_pc = "get_data" /\ gd_stack # <<>>
    /\ resp.kind = "http" /\ ~TryBlockReturns(resp)
    /\ CanRetry(Top.retries)
    /\ gd_log' = Append(gd_log, [args |-> Top, resp |-> resp])
    /\ gd_sleeps' = Append(gd_sleeps, Top.retries)
    /\ gd_stack' = Append(gd_stack, [symbol |-> Top.symbol, start |-> Top.start,
                                     end |-> Top.end, retries |-> Top.retries + 1,
                                     limit |-> DefaultLimit])
    /\ UNCHANGED <<vali_vars, gd_result, gdsdp_pc, data_structure>>

\* lines 41-42: the try block raised and retries = 5
AttemptFailFatal(resp) ==
    /\ gdsdp_pc = "get_data" /\ gd_stack # <<>>
    /\ resp.kind = "http" /\ ~TryBlockReturns(resp)
    /\ ~CanRetry(Top.retries)
    /\ gd_log' = Append(gd_log, [args |-> Top, resp |-> resp])
    /\ gd_stack' = <<>>
    /\ gd_result' = Raised("ConnectionError")
    /\ UNCHANGED <<vali_vars, gd_sleeps, gdsdp_pc, data_structure>>

\* BaseFinancialMarketsGenerator.convert_output_to_data_points(ds, bd, [1,2,3,5]):
\* appends columns 1, 2, 3, 5 (0-based) of every row to the four feature columns
ConvertOutputToDataPoints(ds, rows) ==
    [c \in 1..4 |-> ds[c] \o [i \in 1..Len(rows) |-> rows[i][<<2, 3, 4, 6>>[c]]]]

\* lines 45-51: get_data came back; bd is handed to convert_output_to_data_points
StructureDataPoints ==
    /\ gdsdp_pc = "get_data" /\ gd_stack = <<>> /\ gd_result.kind # "pending"
    /\ IF gd_result.kind = "rows"
         THEN /\ data_structure' = ConvertOutputToDataPoints(data_structure, gd_result.rows)
              /\ gdsdp_pc' = "done"
         ELSE /\ gdsdp_pc' = "raised"   \* the exception of get_data, or bd = None
              /\ UNCHANGED data_structure
    /\ UNCHANGED <<vali_vars, gd_stack, gd_log, gd_sleeps, gd_result>>

InitFetch ==
    /\ gd_stack = <<>>
    /\ gd_log = <<>>
    /\ gd_sleeps = <<>>
    /\ gd_result = Pending
    /\ gdsdp_pc = "idle"
    /\ data_structure = <<<<>>, <<>>, <<>>, <<>>>>


NextFetch ==
    \/ \E symbol \in Symbols, ts_range \in TsRanges : CallGetData(symbol, ts_range)
    \/ AttemptTransport
    \/ \E resp \in Responses : AttemptOk(resp)
    \/ \E resp \in Responses : AttemptFailRetry(resp)
    \/ \E resp \in Responses : AttemptFailFatal(resp)
    \/ StructureDataPoints

(***************************************************************************)
(* Validator: bounds and constants                                         *)
(***************************************************************************)
MaxMiners == 11       \* number of axons in the metagraph
MaxTicks == 3         \* scheduler ticks explored
MaxScore == 2         \* scaled scores range over 0..MaxScore
NumProfiles == 3      \* score assignments tried per grading
MaxBatch == 2         \* longest batch given to run_time_series_validation
TopK == 10            \* validator.py:351  sorted_scores[:10]
TickPeriod == 5       \* validator.py:417  second % 5
ClientPeriod == 59    \* validator.py:419  second % 59
TrainingRoll == 1     \* validator.py:430  random.randint(0, 10) == 1

Miners == 1..MaxMiners            \* axon i has hotkey i and uid i
ValiHotkey == "vali"              \* wallet.hotkey.ss58_address
StandardStream == "BTCUSD-vali"   \* hash(str(stream_type) + hotkey)
Seconds == {0, 1, 5, 55, 59}      \* datetime.now().time().second (a sample of 0..59)
RandInts == {0, 1}                \* random.randint(0, 10) (a sample of 0..10)

RECURSIVE SetToSeq(_)
SetToSeq(S) ==
    IF S = {} THEN <<>>
    ELSE LET m == CHOOSE x \in S : \A y \in S : x <= y
         IN <<m>> \o SetToSeq(S \ {m})

(***************************************************************************)
(* CMW ledger: client -> stream -> miner -> [scores, win_count, win_value] *)
(***************************************************************************)
HasClient(vm, c) == c \in DOMAIN vm
HasStream(vm, c, s) == HasClient(vm, c) /\ s \in DOMAIN vm[c]
HasMiner(vm, c, s, m) == HasStream(vm, c, s) /\ m \in DOMAIN vm[c][s]

\* CMWMiner(miner_uid, 0, 0, [])
NewMiner == [scores |-> <<>>, win_count |-> 0, win_value |-> 0]

\* lines 239-241
AddClientWithStream(vm, c, s) == (c :> (s :> EmptyFn)) @@ vm
\* line 245
AddStream(vm, c, s) == [vm EXCEPT ![c] = (s :> EmptyFn) @@ @]
\* lines 371-372
AddMiner(vm, c, s, m) == [vm EXCEPT ![c][s] = (m :> NewMiner) @@ @]
\* line 374
AddScore(vm, c, s, m, sc) ==
    [vm EXCEPT ![c][s][m].scores = Append(@, sc)]
\* lines 377-378
AddWin(vm, c, s, m, w) ==
    [vm EXCEPT ![c][s][m].win_value = @ + w, ![c][s][m].win_count = @ + 1]

\* a registration that builds the client entry anew whether it exists or not
RegisterAlways(vm, c, s) == (c :> (s :> EmptyFn)) @@ vm
\* lines 236-245: registration of the client / stream of a ClientRequest
RegisterClientStream(vm, c, s) ==
    IF ~HasClient(vm, c) THEN AddClientWithStream(vm, c, s)
    ELSE IF ~HasStream(vm, c, s) THEN AddStream(vm, c, s)
    ELSE vm

(***************************************************************************)
(* Requests                                                                *)
(***************************************************************************)
TrainingRequest == [type |-> "Training"]
ClientRequest == [type |-> "Client", client_uuid |-> "None"]

\* the protocol messages handed to dendrite.query (lines 136, 182, 225, 325)
TrainingForward(request_uuid) == [kind |-> "TrainingForward", request_uuid |-> request_uuid]
TrainingBackward(request_uuid) == [kind |-> "TrainingBackward", request_uuid |-> request_uuid]
LiveForward(request_uuid) == [kind |-> "LiveForward", request_uuid |-> request_uuid]
LiveBackward(request_uuid) == [kind |-> "LiveBackward", request_uuid |-> request_uuid]

GroupFiles(fs, id) == {f \in fs : f.request_uuid = id}

\* ValiUtils.get_predictions_to_complete: one PredictionRequest per request
\* uuid whose window has elapsed, carrying its files and, per miner, its
\* predictions (in miner order)
PredictionRequestOf(fs, id) ==
    LET g == GroupFiles(fs, id)
        f0 == CHOOSE f \in g : TRUE
    IN [type |-> "Prediction", df |-> [request_uuid |-> id,
                                       client_uuid |-> f0.client_uuid,
                                       stream_id |-> f0.stream_id],
        files |-> g,
        predictions |-> SetToSeq({f.miner_uid : f \in g})]

GetPredictionsToComplete(fs, done) ==
    LET ids == SetToSeq({f.request_uuid : f \in fs} \cap done)
    IN [i \in 1..Len(ids) |-> PredictionRequestOf(fs, ids[i])]

(***************************************************************************)
(* __main__ scheduler (lines 413-433)                                      *)
(***************************************************************************)
\* line 417
IsTick(second) == second % TickPeriod = 0
\* lines 419-423
ClientDueAnySecond(second, fs) == fs = {}
ClientDue(second, fs) == second % ClientPeriod = 0 /\ fs = {}
\* lines 418-431: the batch of one tick
ScheduleNoFileCheck(second, roll, fs, done) ==
    LET r1 == IF second % ClientPeriod = 0 THEN <<ClientRequest>> ELSE <<>>
        r2 == r1 \o GetPredictionsToComplete(fs, done)
    IN IF Len(r2) = 0 /\ roll = TrainingRoll THEN <<TrainingRequest>> ELSE r2
Schedule(second, roll, fs, done) ==
    LET r1 == IF ClientDue(second, fs) THEN <<ClientRequest>> ELSE <<>>
        r2 == r1 \o GetPredictionsToComplete(fs, done)
    IN IF Len(r2) = 0 /\ roll = TrainingRoll THEN <<TrainingRequest>> ELSE r2

NoRun == [type |-> "none"]

\* one iteration of the while loop whose second is a multiple of 5, up to the
\* setup of run_time_series_validation (lines 76-110): a validator whose
\* hotkey is not in the metagraph exits
\* a scheduler that starts the batch of a tick while the batch of an earlier
\* tick is still running
TickConcurrent(second, roll, registered) ==
    /\ ticks < MaxTicks
    /\ IsTick(second)
    /\ LET requests == Schedule(second, roll, files, elapsed)
       IN /\ emitted' = [second |-> second, no_files |-> files = {},
                         ready |-> GetPredictionsToComplete(files, elapsed),
                         batch |-> requests]
          /\ vali_requests' = requests
          /\ idx' = 1
          /\ pc' = IF ~registered THEN "exited"
                   ELSE IF requests = <<>> THEN "idle" ELSE "running"
    /\ ticks' = ticks + 1
    /\ last' = NoRun
    /\ UNCHANGED <<fetch_vars, ledger, files, elapsed, next_uuid, held>>

Tick(second, roll, registered) ==
    /\ pc = "idle" /\ ticks < MaxTicks
    /\ IsTick(second)
    /\ LET requests == Schedule(second, roll, files, elapsed)
       IN /\ emitted' = [second |-> second, no_files |-> files = {},
                         ready |-> GetPredictionsToComplete(files, elapsed),
                         batch |-> requests]
          /\ vali_requests' = requests
          /\ idx' = 1
          /\ pc' = IF ~registered THEN "exited"
                   ELSE IF requests = <<>> THEN "idle" ELSE "running"
    /\ ticks' = ticks + 1
    /\ last' = NoRun
    /\ UNCHANGED <<fetch_vars, ledger, files, elapsed, next_uuid, held>>

\* the end of a stored prediction window passes (TimeUtil.now_in_millis() > df.end)
WindowElapses(id) ==
    /\ pc = "idle"
    /\ id \in {f.request_uuid : f \in files} \ elapsed
    /\ elapsed' = elapsed \cup {id}
    /\ UNCHANGED <<fetch_vars, ledger, files, pc, vali_requests, idx, ticks, next_uuid, emitted, last, held>>


(***************************************************************************)
(* Scoring and weighting (lines 340-356)                                   *)
(***************************************************************************)
\* Scoring.score_response + Scoring.simple_scale_scores: the scaled score of
\* each miner, as decided by the predictions and the observed market data
ProfileScore(m, profile) == (profile * m + 1) % (MaxScore + 1)
ScaledScores(miners, profile) ==
    [i \in 1..Len(miners) |-> <<miners[i], ProfileScore(miners[i], profile)>>]

\* line 350: sorted(scaled_scores.items(), key=lambda x: x[1], reverse=True),
\* a stable sort: equal scores keep their dict order
RECURSIVE SortDescUnstable(_, _, _)
SortDescUnstable(items, i, sorted) ==
    IF i > Len(items) THEN sorted
    ELSE LET x == items[i]
             n == Cardinality({j \in 1..Len(sorted) : sorted[j][2] > x[2]})
         IN SortDescUnstable(items, i + 1,
                         SubSeq(sorted, 1, n) \o <<x>> \o SubSeq(sorted, n + 1, Len(sorted)))
RECURSIVE SortDescFrom(_, _, _)
SortDescFrom(items, i, sorted) ==
    IF i > Len(items) THEN sorted
    ELSE LET x == items[i]
             n == Cardinality({j \in 1..Len(sorted) : sorted[j][2] >= x[2]})
         IN SortDescFrom(items, i + 1,
                         SubSeq(sorted, 1, n) \o <<x>> \o SubSeq(sorted, n + 1, Len(sorted)))
SortedScores(items) == SortDescFrom(items, 1, <<>>)

\* lines 351, 355: xs[:10]
FirstTopK(xs) == SubSeq(xs, 1, Min(TopK, Len(xs)))

\* Scoring.weigh_miner_scores: a weight per winning miner, from its score and
\* rank, in the order given; a zero score weighs zero
WeighMinerScores(winning) ==
    [i \in 1..Len(winning) |->
        <<winning[i][1], winning[i][2] * (Len(winning) - i + 1)>>]

\* line 356: {score[0]: score[1] for score in weighed_winning_scores}
DictOf(pairs) ==
    [m \in {pairs[i][1] : i \in 1..Len(pairs)} |->
        LET i == CHOOSE i \in 1..Len(pairs) :
                    pairs[i][1] = m /\ \A j \in (i + 1)..Len(pairs) : pairs[j][1] # m
        IN pairs[i][2]]

\* lines 366-378: the loop over scaled_scores.items(), from item i on; the
\* lookup weighed_winning_scores_dict[miner_uid] raises KeyError for a miner
\* that is not a key of the dict
\* an update loop that counts a win for every miner of the dict, whatever its
\* weight
RECURSIVE AddResultsWinAlways(_, _, _, _, _, _)
AddResultsWinAlways(vm, c, s, items, dict, i) ==
    IF i > Len(items) THEN [vm |-> vm, exc |-> "none"]
    ELSE LET m == items[i][1]
             vm1 == IF HasMiner(vm, c, s, m) THEN vm ELSE AddMiner(vm, c, s, m)
             vm2 == AddScore(vm1, c, s, m, items[i][2])
         IN IF m \notin DOMAIN dict THEN [vm |-> vm2, exc |-> "KeyError"]
            ELSE AddResultsWinAlways(AddWin(vm2, c, s, m, dict[m]), c, s, items, dict, i + 1)
RECURSIVE AddResults(_, _, _, _, _, _)
AddResults(vm, c, s, items, dict, i) ==
    IF i > Len(items) THEN [vm |-> vm, exc |-> "none"]
    ELSE LET m == items[i][1]
             vm1 == IF HasMiner(vm, c, s, m) THEN vm ELSE AddMiner(vm, c, s, m)
             vm2 == AddScore(vm1, c, s, m, items[i][2])
         IN IF m \notin DOMAIN dict THEN [vm |-> vm2, exc |-> "KeyError"]
            ELSE IF dict[m] # 0
                   THEN AddResults(AddWin(vm2, c, s, m, dict[m]), c, s, items, dict, i + 1)
                   ELSE AddResults(vm2, c, s, items, dict, i + 1)

\* lines 364-383: the inner try; returns the persisted ledger afterwards and
\* the exception the except clause swallowed ("none" if the write went through)
StoreResultsNoPersist(vm, c, s, items, dict, write) ==
    [ledger |-> vm, exc |-> "none"]
\* a ledger update that flushes the miners updated before the exception
StoreResultsPartial(vm, c, s, items, dict, write) ==
    IF items # <<>> /\ ~HasStream(vm, c, s)
      THEN [ledger |-> vm, exc |-> "AttributeError"]
      ELSE LET r == IF items = <<>> THEN [vm |-> vm, exc |-> "none"]
                    ELSE AddResults(vm, c, s, items, dict, 1)
           IN [ledger |-> r.vm, exc |-> r.exc]
StoreResults(vm, c, s, items, dict, write) ==
    IF items # <<>> /\ ~HasStream(vm, c, s)
      THEN [ledger |-> vm, exc |-> "AttributeError"]   \* stream_type is None
      ELSE LET r == IF items = <<>> THEN [vm |-> vm, exc |-> "none"]
                    ELSE AddResults(vm, c, s, items, dict, 1)
           IN IF r.exc # "none" THEN [ledger |-> vm, exc |-> r.exc]
              ELSE IF write = "fail" THEN [ledger |-> vm, exc |-> "IOError"]
              ELSE [ledger |-> r.vm, exc |-> "none"]

\* what a call of an external collaborator (dendrite.query, set_weights) does
RpcOutcomes == {"ok", "RuntimeError", "Exception"}

\* lines 401-409: the except clause catches RuntimeError only; the else
\* clause (file removal) runs iff the try block raised nothing
Caught(exc) == exc = "RuntimeError"
\* lines 247-250 and 380-383: "except Exception" around the ledger update logs
\* the exception and continues
CaughtInnerRuntimeOnly(exc) == exc = "RuntimeError"
CaughtInner(exc) == TRUE
RemovesFilesFinally(exc) == TRUE
RemovesFiles(exc) == exc = "none"

\* the try block of lines 306-400 for one PredictionRequest:
\*   exc        the exception that ended it ("none" if it completed)
\*   ledger     the persisted ledger afterwards
\*   ledger_exc the exception swallowed by the inner try ("skipped" if not reached)
\*   commit     the (uid, weight) pairs handed to subtensor.set_weights
Grade(req, vm, env) ==
    LET c == req.df.client_uuid
        s == req.df.stream_id
        items == ScaledScores(req.predictions, env.profile)
        weighed == WeighMinerScores(FirstTopK(SortedScores(items)))
        winning == FirstTopK(weighed)
        dict == DictOf(winning)
        stop(e) == [exc |-> e, ledger |-> vm, ledger_exc |-> "skipped",
                    commit_called |-> FALSE, commit |-> <<>>,
                    scaled |-> items, dict |-> dict]
        store == StoreResults(vm, c, s, items, dict, env.write)
        after(e, called) == [exc |-> e, ledger |-> store.ledger,
                             ledger_exc |-> store.exc,
                             commit_called |-> called,
                             commit |-> IF called THEN winning ELSE <<>>,
                             scaled |-> items, dict |-> dict]
    IN IF env.fetch = "fatal" THEN stop("ConnectionError")           \* line 313
       ELSE IF env.rpc # "ok" THEN stop(env.rpc)                     \* line 332
       ELSE IF env.score # "ok" THEN stop(env.score)                 \* line 342
       ELSE IF ~HasClient(vm, c) THEN stop("AttributeError")         \* line 347
       ELSE IF store.exc # "none" /\ ~CaughtInner(store.exc)
              THEN after(store.exc, FALSE)                           \* lines 380-383
       ELSE IF \E i \in 1..Len(winning) : winning[i][1] \notin env.hotkeys
              THEN after("ValueError", FALSE)                        \* line 389
       ELSE after(IF env.set_weights = "ok" THEN "none" ELSE env.set_weights,
                  TRUE)                                              \* line 394

\* the first call that raises ends the try block, so what later calls would
\* have done is never observed: environments with one failing call suffice
PredEnvs ==
    {e \in [fetch : {"ok", "fatal"}, rpc : RpcOutcomes, score : {"ok", "ValueError"},
            profile : 0..(NumProfiles - 1), write : {"ok", "fail"},
            hotkeys : {Miners, Miners \ {1}}, set_weights : RpcOutcomes] :
        Cardinality({x \in {<<1, e.fetch>>, <<2, e.rpc>>, <<3, e.score>>,
                              <<4, e.set_weights>>} : x[2] # "ok"}) <= 1}

\* lines 236, 307: vm = ValiUtils.get_vali_records(), the ledger copy the
\* running workflow (request idx of the batch of this tick) works on
Workflow == <<ticks, idx>>
HeldReads == {h \in held : h.workflow = Workflow}
LedgerRead == IF HeldReads = {} THEN ledger ELSE (CHOOSE h \in HeldReads : TRUE).read

\* the read taken as a step of its own; the workflow goes on from it
GetValiRecords ==
    /\ pc = "running" /\ idx <= Len(vali_requests)
    /\ vali_requests[idx].type \in {"Client", "Prediction"}
    /\ HeldReads = {}
    /\ held' = held \cup {[workflow |-> Workflow, read |-> ledger]}
    /\ UNCHANGED <<fetch_vars, ledger, files, elapsed, pc, vali_requests, idx, ticks,
                   next_uuid, emitted, last>>

\* position after request idx of the batch ended without an uncaught exception
Advance ==
    /\ idx' = idx + 1
    /\ pc' = IF idx = Len(vali_requests) THEN "idle" ELSE "running"

\* an exception left run_time_series_validation and the while loop with it
Crash ==
    /\ idx' = idx
    /\ pc' = "crashed"

Running(type) ==
    /\ pc = "running" /\ idx <= Len(vali_requests)
    /\ vali_requests[idx].type = type

\* lines 301-409
ProcessPrediction(env) ==
    /\ Running("Prediction")
    /\ LET req == vali_requests[idx]
           g == Grade(req, LedgerRead, env)
           removed == IF RemovesFiles(g.exc) THEN req.files ELSE {}
       IN /\ ledger' = g.ledger
          /\ files' = files \ removed
          /\ last' = [type |-> "Prediction", request_uuid |-> next_uuid, req |-> req,
                      exc |-> g.exc, ledger_exc |-> g.ledger_exc,
                      ledger_before |-> ledger, files_before |-> files,
                      commit_called |-> g.commit_called, commit |-> g.commit,
                      scaled |-> g.scaled, dict |-> g.dict, removed |-> removed,
                      write |-> env.write, read |-> LedgerRead,
                      sent |-> IF env.fetch = "fatal" THEN <<>>          \* line 313
                               ELSE <<LiveBackward(next_uuid)>>]        \* lines 325-336
          /\ IF g.exc = "none" \/ Caught(g.exc) THEN Advance ELSE Crash
    /\ next_uuid' = next_uuid + 1
    /\ held' = held \ HeldReads
    /\ UNCHANGED <<fetch_vars, elapsed, vali_requests, ticks, emitted>>


(***************************************************************************)
(* ClientRequest (lines 201-299)                                           *)
(***************************************************************************)
\* the replies of dendrite.query, one per axon: the first k axons answer with
\* prediction_size values, the others not at all or with another length
ResponsesOf(k) ==
    [i \in Miners |-> IF i <= k THEN "full" ELSE IF i % 2 = 0 THEN "None" ELSE "short"]

\* lines 274-275: resp_i is not None and len(resp_i.numpy()) == prediction_size
ValidResponseAnyLength(r) == r # "None"
ValidResponse(r) == r # "None" /\ r = "full"

\* lines 278-293: the PredictionDataFile saved for axon i
PredictionDataFile(c, s, request_uuid, output_uuid, i) ==
    [client_uuid |-> c, stream_id |-> s, request_uuid |-> request_uuid,
     output_uuid |-> output_uuid, miner_uid |-> i]

\* the numbers of answering axons tried
ResponderCounts == {0, 1, 2, TopK, MaxMiners}

ClientEnvs ==
    {e \in [fetch : {"ok", "fatal"}, write : {"ok", "fail"}, rpc : RpcOutcomes,
            k : ResponderCounts] :
        /\ (e.fetch = "fatal" => (e.rpc = "ok" /\ e.write = "ok" /\ e.k = 0))
        /\ (e.rpc # "ok" => e.k = 0)}

\* lines 215-246: the ledger registration is reached after the market-data
\* fetch of line 217 and persisted by the write of line 246
RegistersBeforeFetch(env) == env.write = "ok"
Registers(env) == env.fetch = "ok" /\ env.write = "ok"

ProcessClient(env) ==
    /\ Running("Client")
    /\ LET req == vali_requests[idx]
           c == IF req.client_uuid = "None" THEN ValiHotkey ELSE req.client_uuid
           s == StandardStream
           request_uuid == next_uuid
           output_uuid == next_uuid + 1
           responses == ResponsesOf(env.k)
           saved == {PredictionDataFile(c, s, request_uuid, output_uuid, i) :
                        i \in {j \in Miners : ValidResponse(responses[j])}}
           ledger_exc == IF env.fetch = "fatal" THEN "skipped"
                         ELSE IF env.write = "fail" THEN "IOError" ELSE "none"
           escaped == ledger_exc = "IOError" /\ ~CaughtInner(ledger_exc)
           exc == IF env.fetch = "fatal" THEN "ConnectionError"       \* line 217
                  ELSE IF escaped THEN ledger_exc                     \* lines 247-250
                  ELSE IF env.rpc # "ok" THEN env.rpc                 \* line 253
                  ELSE "none"
           registered == Registers(env)
       IN /\ ledger' = IF registered THEN RegisterClientStream(LedgerRead, c, s)
                       ELSE ledger
          /\ files' = IF exc = "none" THEN files \cup saved ELSE files
          /\ next_uuid' = IF exc = "none" THEN next_uuid + 2 ELSE next_uuid + 1
          /\ last' = [type |-> "Client", request_uuid |-> request_uuid, req |-> req,
                      exc |-> exc,
                      ledger_exc |-> ledger_exc,
                      ledger_before |-> ledger, files_before |-> files,
                      saved |-> files' \ files, responses |-> responses,
                      read |-> LedgerRead,
                      sent |-> IF env.fetch = "fatal" \/ escaped THEN <<>>   \* line 217
                               ELSE <<LiveForward(request_uuid)>>]      \* lines 225-257
          /\ IF exc = "none" \/ Caught(exc) THEN Advance ELSE Crash
    /\ held' = held \ HeldReads
    /\ UNCHANGED <<fetch_vars, elapsed, vali_requests, ticks, emitted>>

(***************************************************************************)
(* TrainingRequest (lines 121-199)                                         *)
(***************************************************************************)
TrainingEnvs ==
    {e \in [fetch : {"ok", "fatal"}, rpc : RpcOutcomes,
            fetch_results : {"ok", "fatal"}, rpc_back : RpcOutcomes] :
        Cardinality({x \in {<<1, e.fetch>>, <<2, e.rpc>>, <<3, e.fetch_results>>,
                              <<4, e.rpc_back>>} : x[2] # "ok"}) <= 1}

\* a training workflow that registered its stream like a ClientRequest does
ProcessTrainingRegisters(env) ==
    /\ Running("Training")
    /\ ledger' = RegisterClientStream(ledger, ValiHotkey, StandardStream)
    /\ last' = [type |-> "Training", request_uuid |-> next_uuid,
                req |-> vali_requests[idx], exc |-> "none",
                ledger_before |-> ledger, files_before |-> files, sent |-> <<>>]
    /\ Advance
    /\ next_uuid' = next_uuid + 1
    /\ UNCHANGED <<fetch_vars, files, elapsed, vali_requests, ticks, emitted, held>>

ProcessTraining(env) ==
    /\ Running("Training")
    /\ LET exc == IF env.fetch = "fatal" THEN "ConnectionError"        \* line 130
                  ELSE IF env.rpc # "ok" THEN env.rpc                  \* line 147
                  ELSE IF env.fetch_results = "fatal" THEN "ConnectionError" \* line 171
                  ELSE IF env.rpc_back # "ok" THEN env.rpc_back        \* line 189
                  ELSE "none"
           request_uuid == next_uuid
           sent == IF env.fetch = "fatal" THEN <<>>
                   ELSE IF env.rpc # "ok" \/ env.fetch_results = "fatal"
                     THEN <<TrainingForward(request_uuid)>>
                   ELSE <<TrainingForward(request_uuid), TrainingBackward(request_uuid)>>
       IN /\ last' = [type |-> "Training", request_uuid |-> request_uuid,
                      req |-> vali_requests[idx], exc |-> exc,
                      ledger_before |-> ledger, files_before |-> files,
                      sent |-> sent]
          /\ IF exc = "none" \/ Caught(exc) THEN Advance ELSE Crash
    /\ next_uuid' = next_uuid + 1
    /\ UNCHANGED <<fetch_vars, ledger, files, elapsed, vali_requests, ticks, emitted, held>>

(***************************************************************************)
(* Specifications                                                          *)
(***************************************************************************)
InitDisk ==
    /\ ledger = EmptyFn
    /\ files = {}
    /\ elapsed = {}

InitVali ==
    /\ InitDisk
    /\ pc = "idle"
    /\ vali_requests = <<>>
    /\ idx = 1
    /\ ticks = 0
    /\ next_uuid = 1
    /\ emitted = [second |-> 0, no_files |-> TRUE, ready |-> <<>>, batch |-> <<>>]
    /\ last = NoRun
    /\ held = {}

Init == InitFetch /\ InitVali

Next ==
    \/ \E second \in Seconds, roll \in RandInts, registered \in BOOLEAN :
          Tick(second, roll, registered)
    \/ \E id \in 1..(2 * MaxTicks) : WindowElapses(id)
    \/ \E env \in TrainingEnvs : ProcessTraining(env)
    \/ \E env \in ClientEnvs : ProcessClient(env)
    \/ \E env \in PredEnvs : ProcessPrediction(env)

Spec == Init /\ [][Next]_vars

SpecFetch == Init /\ [][NextFetch]_vars


(***************************************************************************)
(* run_time_series_validation(vali_requests) on a given batch: the         *)
(* function is entered with any list of requests; a PredictionRequest of   *)
(* the batch has its files on disk, and the ledger holds the client and    *)
(* stream of the requests or (after a failed ledger write) does not        *)
(***************************************************************************)
BatchKinds == {"Training", "Client", "Prediction"}
BatchGroupMiners == {1, 2}

BatchFiles(kinds) ==
    {PredictionDataFile(ValiHotkey, StandardStream, i, i, m) :
        i \in {j \in 1..Len(kinds) : kinds[j] = "Prediction"}, m \in BatchGroupMiners}

BatchOf(kinds) ==
    [i \in 1..Len(kinds) |->
        IF kinds[i] = "Training" THEN TrainingRequest
        ELSE IF kinds[i] = "Client" THEN ClientRequest
        ELSE PredictionRequestOf(BatchFiles(kinds), i)]

InitBatch ==
    /\ InitFetch
    /\ \E n \in 1..MaxBatch : \E kinds \in [1..n -> BatchKinds] : \E known \in BOOLEAN :
          /\ files = BatchFiles(kinds)
          /\ elapsed = {f.request_uuid : f \in BatchFiles(kinds)}
          /\ ledger = IF known THEN RegisterClientStream(EmptyFn, ValiHotkey, StandardStream)
                      ELSE EmptyFn
          /\ vali_requests = BatchOf(kinds)
          /\ next_uuid = n + 1
    /\ pc = "running"
    /\ idx = 1
    /\ ticks = 0
    /\ emitted = [second |-> 0, no_files |-> TRUE, ready |-> <<>>, batch |-> <<>>]
    /\ last = NoRun
    /\ held = {}

NextBatch ==
    \/ \E env \in TrainingEnvs : ProcessTraining(env)
    \/ \E env \in ClientEnvs : ProcessClient(env)
    \/ \E env \in PredEnvs : ProcessPrediction(env)

SpecBatch == InitBatch /\ [][NextBatch]_vars

(***************************************************************************)
(* The ClientRequest branch applied twice to the same request, over the    *)
(* ledgers it can meet: empty, or holding this or another client, with     *)
(* this or another stream, graded or not                                   *)
(***************************************************************************)
OtherClient == "client-2"
OtherStream == "ETHUSD-vali"
GradedMiner == [scores |-> <<1>>, win_count |-> 1, win_value |-> 2]
StreamSamples == {EmptyFn, (1 :> GradedMiner)}
ClientSamples ==
    UNION {[ss -> StreamSamples] : ss \in SUBSET {StandardStream, OtherStream} \ {{}}}
LedgerSamples ==
    UNION {[cs -> ClientSamples] : cs \in SUBSET {ValiHotkey, OtherClient}}
ClientRequests == {ClientRequest, [type |-> "Client", client_uuid |-> OtherClient]}

InitRegister ==
    /\ InitFetch
    /\ ledger \in LedgerSamples
    /\ \E req \in ClientRequests : vali_requests = <<req, req>>
    /\ files = {}
    /\ elapsed = {}
    /\ pc = "running"
    /\ idx = 1
    /\ ticks = 0
    /\ next_uuid = 1
    /\ emitted = [second |-> 0, no_files |-> TRUE, ready |-> <<>>, batch |-> <<>>]
    /\ last = NoRun
    /\ held = {}

NextRegister == \E env \in ClientEnvs : ProcessClient(env)

SpecRegister == InitRegister /\ [][NextRegister]_vars

(***************************************************************************)
(* The same program with the ledger read of a workflow (lines 236, 307) as *)
(* a step of its own, before the rest of the workflow up to its ledger     *)
(* write (lines 246, 379): what can happen between the two is what the     *)
(* scheduler loop and the for loop of line 117 allow.                      *)
(***************************************************************************)
ProcessClientAfterRead(env) == HeldReads # {} /\ ProcessClient(env)
ProcessPredictionAfterRead(env) == HeldReads # {} /\ ProcessPrediction(env)

NextSteps ==
    \/ \E second \in Seconds, roll \in RandInts, registered \in BOOLEAN :
          Tick(second, roll, registered)
    \/ \E id \in 1..(2 * MaxTicks) : WindowElapses(id)
    \/ \E env \in TrainingEnvs : ProcessTraining(env)
    \/ GetValiRecords
    \/ \E env \in ClientEnvs : ProcessClientAfterRead(env)
    \/ \E env \in PredEnvs : ProcessPredictionAfterRead(env)

SpecSteps == Init /\ [][NextSteps]_vars

(***************************************************************************)
(* Properties of ByBitData.get_data (checked under SpecFetch)              *)
(***************************************************************************)
Attempt(i) == gd_log[i].resp
FailedStatus(i) == Attempt(i).kind = "http" /\ Attempt(i).status_code # StatusOK
FailedInTry(i) == Attempt(i).kind = "http" /\ ~TryBlockReturns(Attempt(i))
Succeeded(i) == Attempt(i).kind = "http" /\ TryBlockReturns(Attempt(i))
GetDataEnded == gd_stack = <<>> /\ gd_log # <<>>

\* C1: for every k in 1..5, if the first k attempts fail with a non-200 status
\* and attempt k+1 succeeds, the caller of get_data receives the row list of
\* the successful response (not an error, not None)
C1_RetrySuccessDelivered ==
    \A k \in 1..MaxRetries :
        (/\ GetDataEnded /\ Len(gd_log) = k + 1
         /\ \A i \in 1..k : FailedStatus(i)
         /\ Succeeded(k + 1))
        => gd_result = Returned(Attempt(k + 1).body.result.list)

\* C2: get_data makes at most 6 attempts; it raises the fatal ConnectionError
\* exactly when the 6th consecutive attempt fails in the try block, never
\* after fewer failures
C2_AtMostSixAttempts ==
    /\ Len(gd_log) <= MaxRetries + 1
    /\ gd_result.kind = "ConnectionError"
         <=> (/\ Len(gd_log) = MaxRetries + 1
              /\ \A i \in 1..(MaxRetries + 1) : FailedInTry(i))

C2_Witness_SixthAttemptFails ==
    /\ gd_result.kind = "ConnectionError"
    /\ Len(gd_log) = MaxRetries + 1
    /\ gd_sleeps = <<0, 1, 2, 3, 4>>

\* C3: a failure raised by the HTTP request itself is retried like a non-200
\* response: while retries remain it does not reach the caller
C3_TransportErrorRetried ==
    \A i \in 1..Len(gd_log) :
        (Attempt(i).kind = "transport" /\ CanRetry(gd_log[i].args.retries))
        => gd_result.kind # "RequestException"

(***************************************************************************)
(* Properties of run_time_series_validation                                *)
(***************************************************************************)
\* the failures that end a workflow with an exception other than RuntimeError:
\* a fatal market-data fetch error, a client missing from the ledger, a
\* winning miner whose hotkey is not in the metagraph
ListedFailures == {"ConnectionError", "AttributeError", "ValueError"}

\* C4 (SpecBatch): a failure of one request's workflow (fatal fetch error,
\* missing ledger entry, unknown miner hotkey, ...) does not keep the
\* requests after it in the batch from being processed: the batch is never
\* abandoned with requests left
C4_FailureDoesNotStopBatch ==
    ~(/\ pc = "crashed"
      /\ last.exc \in ListedFailures
      /\ idx < Len(vali_requests))

Graded == last.type = "Prediction" /\ last.exc = "none"
LastClient == last.req.df.client_uuid
LastStream == last.req.df.stream_id
MinerEntry(vm, c, s, m) == IF HasMiner(vm, c, s, m) THEN vm[c][s][m] ELSE NewMiner
\* the request was graded with its client and stream in the ledger and no
\* failure of the ledger write itself
GradedWithLedger ==
    /\ Graded
    /\ last.write = "ok"
    /\ HasStream(last.ledger_before, LastClient, LastStream)
ScoresRecorded ==
    \A i \in 1..Len(last.scaled) :
        LET m == last.scaled[i][1]
        IN MinerEntry(ledger, LastClient, LastStream, m).scores
             = Append(MinerEntry(last.ledger_before, LastClient, LastStream, m).scores,
                      last.scaled[i][2])

\* C5: after a PredictionRequest is graded, every miner of its predictions
\* (more than 10 included) has its scaled score appended to its score
\* history in the persisted ledger
C5_AllScoresRecorded == GradedWithLedger => ScoresRecorded

\* C6: grading increments a miner's win_count and adds its weight to
\* win_value_total iff the miner is in the weighted top 10 with nonzero
\* weight; every other miner's win fields are unchanged
C6_WinsIffWeighted ==
    GradedWithLedger =>
        \A m \in Miners :
            LET before == MinerEntry(last.ledger_before, LastClient, LastStream, m)
                after == MinerEntry(ledger, LastClient, LastStream, m)
                wins == m \in DOMAIN last.dict /\ last.dict[m] # 0
            IN IF wins
                 THEN /\ after.win_count = before.win_count + 1
                      /\ after.win_value = before.win_value + last.dict[m]
                 ELSE /\ after.win_count = before.win_count
                      /\ after.win_value = before.win_value

FilesRemoved == last.type = "Prediction" /\ last.removed # {}

\* C7 as claimed: the files of a PredictionRequest are deleted only after a
\* successful ledger write containing the request's scores
C7_RemovedOnlyAfterLedgerWrite ==
    FilesRemoved => (last.ledger_exc = "none" /\ ScoresRecorded)

\* C7 amended: the files are deleted only after the try block completed: the
\* ledger update was attempted (its failure is logged and ignored) and
\* set_weights returned; if the ledger update raised nothing, the persisted
\* ledger holds the request's scores
C7_RemovedOnlyAfterCommit ==
    FilesRemoved =>
        /\ last.exc = "none"
        /\ last.commit_called
        /\ last.ledger_exc # "skipped"
        /\ last.ledger_exc = "none" => ScoresRecorded

C7_Witness_RemovedAfterWrite ==
    /\ FilesRemoved
    /\ last.ledger_exc = "none"
    /\ Len(last.scaled) >= 2
    /\ last.removed = last.req.files

\* C8: if the processing of a PredictionRequest is ended by an exception
\* (caught or not), none of its files has been deleted
C8_InterruptedKeepsFiles ==
    (last.type = "Prediction" /\ last.exc # "none")
        => /\ last.removed = {}
           /\ last.req.files # {}
           /\ last.req.files \subseteq files

C8_Witness_CommitFails ==
    /\ last.type = "Prediction"
    /\ last.exc = "RuntimeError"
    /\ last.commit_called
    /\ last.ledger_exc = "none"
    /\ last.req.files \subseteq files

\* C11: processing a TrainingRequest, whatever its outcome (success, RPC
\* error, fetch error), leaves the persisted ledger and the set of persisted
\* prediction files as they were before the workflow
C11_TrainingNoLedgerEffect ==
    last.type = "Training"
        => /\ ledger = last.ledger_before
           /\ files = last.files_before

C11_Witness_TrainingOverLedger ==
    /\ last.type = "Training"
    /\ last.exc = "RuntimeError"
    /\ ledger # EmptyFn
    /\ files # {}

LastSent == IF last.type = "none" THEN <<>> ELSE last.sent
Sent(kind) == {i \in 1..Len(LastSent) : LastSent[i].kind = kind}

\* C12: the backward message of a request carries the request_uuid of its
\* forward message: TrainingBackward that of TrainingForward, and the
\* LiveBackward sent while grading a PredictionRequest the request_uuid that
\* was sent in the LiveForward and stored in the record
C12_BackwardCarriesForwardUuid ==
    /\ \A b \in Sent("TrainingBackward") : \A f \in Sent("TrainingForward") :
          LastSent[b].request_uuid = LastSent[f].request_uuid
    /\ last.type = "Prediction"
          => \A b \in Sent("LiveBackward") :
                LastSent[b].request_uuid = last.req.df.request_uuid

\* item j of the scaled scores goes before item i in the ranking: a higher
\* score, or the same score and an earlier place in the original order
Outranks(items, j, i) ==
    items[j][2] > items[i][2] \/ (items[j][2] = items[i][2] /\ j < i)
RankOf(items, i) == Cardinality({j \in 1..Len(items) : Outranks(items, j, i)})
CommitCalled == last.type = "Prediction" /\ last.commit_called

\* C13: the (miner, weight) list handed to set_weights for a PredictionRequest
\* with n scored miners has min(10, n) entries: entry r is the miner with
\* exactly r - 1 miners ranked before it (higher scaled score, or equal score
\* and earlier in the original order), so the list is determined by the
\* scaled scores alone
C13_CommitIsTopTen ==
    CommitCalled =>
        LET items == last.scaled
        IN /\ Len(last.commit) = Min(TopK, Len(items))
           /\ \A i \in 1..Len(items) :
                 RankOf(items, i) < TopK
                    => last.commit[RankOf(items, i) + 1][1] = items[i][1]

\* more than 10 scored miners, and the cut falls between two equal scores
C13_Witness_TieAtTheCut ==
    /\ CommitCalled
    /\ Len(last.scaled) > TopK
    /\ Len(last.commit) = TopK
    /\ \E i, j \in 1..Len(last.scaled) :
          /\ last.scaled[i][2] = last.scaled[j][2]
          /\ RankOf(last.scaled, i) < TopK
          /\ RankOf(last.scaled, j) >= TopK

\* the files a ClientRequest saves for the replies it got: one per axon
\* whose reply is present and has prediction_size values, under its hotkey
ValidAxons == {i \in Miners : last.responses[i] = "full"}
Dispatched == last.type = "Client" /\ last.sent # <<>>
DispatchReturned == Dispatched /\ last.exc = "none"
ZeroValidResponses ==
    \/ DispatchReturned /\ ValidAxons = {}
    \/ last.type = "Prediction" /\ last.req.predictions = <<>>

\* C14: a request that yields zero valid worker responses (a ClientRequest
\* whose dispatch returns no well-formed reply, a PredictionRequest with no
\* predictions) is a no-op: the persisted ledger is not updated,
\* set_weights is not called and no error is raised
C14_ZeroValidIsNoOp ==
    ZeroValidResponses =>
        /\ ledger = last.ledger_before
        /\ last.type = "Prediction" => ~last.commit_called
        /\ last.exc = "none"

LedgerWriteFailed == last.type \in {"Client", "Prediction"} /\ last.ledger_exc = "IOError"

\* C16: a failure of the ledger write does not halt the workflow: in a
\* ClientRequest the request is still dispatched and the valid predictions
\* are saved; in a PredictionRequest the top-10 weights are still handed to
\* set_weights (unless a winning hotkey is unknown to the metagraph); the
\* write's exception never leaves the workflow
C16_WriteFailureContinues ==
    LedgerWriteFailed =>
        /\ last.exc # "IOError"
        /\ ledger = last.ledger_before
        /\ last.type = "Client" =>
              /\ last.sent = <<LiveForward(last.request_uuid)>>
              /\ last.exc = "none" =>
                    ({f.miner_uid : f \in last.saved} = ValidAxons /\ pc # "crashed")
        /\ last.type = "Prediction" =>
              /\ last.commit_called \/ last.exc = "ValueError"
              /\ last.commit_called =>
                    Len(last.commit) = Min(TopK, Len(last.scaled))
              /\ last.exc = "none" => pc # "crashed"

C16_Witness_WriteFailsClient ==
    /\ LedgerWriteFailed /\ last.type = "Client"
    /\ last.exc = "none"
    /\ Cardinality(last.saved) = TopK

C16_Witness_WriteFailsPrediction ==
    /\ LedgerWriteFailed /\ last.type = "Prediction"
    /\ last.exc = "none"
    /\ last.commit_called /\ Len(last.commit) >= 2

WorkflowFailed == last.type # "none" /\ last.exc # "none"

\* C17: after a workflow failure in one tick (a fatal fetch error, a record
\* that cannot be graded, ...) the scheduler loop keeps running: the loop is
\* never left by the exception of a workflow
C17_LoopSurvivesFailure ==
    (WorkflowFailed /\ last.exc \in ListedFailures) => pc # "crashed"

FetchFailedFatally == last.type # "none" /\ last.exc = "ConnectionError"

\* C18: if the market-data fetch fails fatally during a workflow (Training,
\* Client or Prediction), the persisted ledger afterwards equals the
\* persisted ledger before the workflow started
C18_FetchFailureLeavesLedger ==
    FetchFailedFatally => ledger = last.ledger_before

\* the first ClientRequest of a client: its fetch fails before the
\* registration of lines 235-246 is reached
C18_Witness_ClientFetchFails ==
    /\ FetchFailedFatally
    /\ last.type = "Client"
    /\ ~HasClient(ledger, ValiHotkey)

WinsRecorded ==
    \A i \in 1..Len(last.scaled) :
        LET m == last.scaled[i][1]
            before == MinerEntry(last.ledger_before, LastClient, LastStream, m)
            after == MinerEntry(ledger, LastClient, LastStream, m)
        IN IF m \in DOMAIN last.dict /\ last.dict[m] # 0
             THEN /\ after.win_count = before.win_count + 1
                  /\ after.win_value = before.win_value + last.dict[m]
             ELSE /\ after.win_count = before.win_count
                  /\ after.win_value = before.win_value

\* C19: after a PredictionRequest is processed, the persisted ledger either
\* holds the score append and the win updates of every miner of the request
\* or equals its value before the request, never the updates of some of the
\* miners only
C19_LedgerAllOrNothing ==
    last.type = "Prediction" =>
        \/ ledger = last.ledger_before
        \/ ScoresRecorded /\ WinsRecorded

\* the update loop raised after it had updated the first miners in memory
C19_Witness_LoopRaisedMidway ==
    /\ last.type = "Prediction"
    /\ last.ledger_exc = "KeyError"
    /\ \E i \in 1..(Len(last.scaled) - 1) : last.scaled[i][1] \notin DOMAIN last.dict
    /\ ledger = last.ledger_before

\* C20: no ledger write by another tick or request occurs between a
\* workflow's ledger read and its own ledger write: the copy a workflow holds
\* is the persisted ledger until the workflow itself writes, and the ledger
\* a workflow wrote from is the one persisted at the moment of its write, so
\* no update is lost to a stale read
C20_SingleWriter ==
    /\ \A h \in held : h.read = ledger
    /\ last.type \in {"Client", "Prediction"} => last.read = last.ledger_before

\* the workflow of a later tick holds a read that contains the scores
\* written by the workflow of an earlier tick
C20_Witness_ReadAfterEarlierWrite ==
    /\ ticks >= 2
    /\ \E h \in held :
          /\ h.workflow = Workflow /\ h.read = ledger
          /\ \E m \in Miners : HasMiner(h.read, ValiHotkey, StandardStream, m)

LastClientUuid ==
    IF last.req.client_uuid = "None" THEN ValiHotkey ELSE last.req.client_uuid
Registered == last.type = "Client" /\ last.ledger_exc = "none"

\* C21 (SpecRegister): after a successful registration the ledger holds the
\* request's client and stream; nothing but that client and that stream is
\* added, every client, stream and miner entry (scores, win_count,
\* win_value) that existed before is unchanged, and a request whose client
\* and stream exist already (the same request processed again) leaves the
\* ledger as it was
C21_RegistrationLazyIdempotent ==
    Registered =>
        LET c == LastClientUuid
            s == StandardStream
            before == last.ledger_before
        IN /\ HasStream(ledger, c, s)
           /\ DOMAIN ledger = DOMAIN before \cup {c}
           /\ \A c2 \in DOMAIN before :
                 /\ DOMAIN ledger[c2]
                      = DOMAIN before[c2] \cup (IF c2 = c THEN {s} ELSE {})
                 /\ \A s2 \in DOMAIN before[c2] : ledger[c2][s2] = before[c2][s2]
           /\ (~HasStream(before, c, s)) => ledger[c][s] = EmptyFn
           /\ HasStream(before, c, s) => ledger = before

\* the client exists with a graded miner on another stream and the request's
\* stream is added to it
C21_Witness_StreamAddedToClient ==
    /\ Registered
    /\ HasClient(last.ledger_before, LastClientUuid)
    /\ ~HasStream(last.ledger_before, LastClientUuid, StandardStream)
    /\ HasMiner(last.ledger_before, LastClientUuid, OtherStream, 1)
    /\ HasMiner(ledger, LastClientUuid, OtherStream, 1)
    /\ HasStream(ledger, LastClientUuid, StandardStream)

\* the second processing of the same request, after the first registered it
C21_Witness_SecondProcessing ==
    /\ Registered
    /\ idx = 3
    /\ ledger = last.ledger_before
    /\ HasMiner(ledger, OtherClient, OtherStream, 1)

\* C22: in every reachable state, also after a ledger write failure during
\* the ClientRequest, the persisted ledger holds the client and the stream of
\* every persisted prediction file
C22_FilesHaveLedgerEntry ==
    \A f \in files : HasStream(ledger, f.client_uuid, f.stream_id)

LedgerKeys == {ValiHotkey, OtherClient} \X {StandardStream, OtherStream} \X Miners
WinsWithinScores ==
    \A k \in LedgerKeys :
        LET e == MinerEntry(ledger, k[1], k[2], k[3])
        IN e.win_count <= Len(e.scores)
WinStep ==
    \A k \in LedgerKeys :
        LET b == MinerEntry(ledger, k[1], k[2], k[3])
            a == MinerEntry(ledger', k[1], k[2], k[3])
        IN /\ (a.win_count # b.win_count) <=> (a.win_value # b.win_value)
           /\ (a.win_count # b.win_count)
                 => /\ a.win_count = b.win_count + 1
                    /\ Len(a.scores) = Len(b.scores) + 1

\* C23: after any sequence of ticks every miner entry of the persisted ledger
\* has win_count at most the length of its score history, and every step
\* that changes a win_count changes it by one, together with win_value and
\* with a score append for that miner
C23_WinsFollowScores == []WinsWithinScores /\ [][WinStep]_vars

\* one grading recorded a score with a win for one miner and a score without
\* a win for another
C23_Witness_WinAndNoWin ==
    /\ Graded
    /\ \E m1, m2 \in Miners :
          LET e1 == MinerEntry(ledger, LastClient, LastStream, m1)
              e2 == MinerEntry(ledger, LastClient, LastStream, m2)
          IN /\ e1.win_count = 1 /\ e1.win_value > 0 /\ Len(e1.scores) = 1
             /\ e2.win_count = 0 /\ e2.win_value = 0 /\ Len(e2.scores) = 1

(***************************************************************************)
(* Properties of the scheduler                                             *)
(***************************************************************************)
Ticked == ticks > 0
BatchTypes == {emitted.batch[i].type : i \in 1..Len(emitted.batch)}

\* C9: on a tick with at least one completed PredictionRecord pending, the
\* batch is the list of PredictionRequests the store returned (one per ready
\* request) and holds no ClientRequest and no TrainingRequest
C9_PredictionsPreempt ==
    (Ticked /\ emitted.ready # <<>>)
        => /\ emitted.batch = emitted.ready
           /\ "Client" \notin BatchTypes
           /\ "Training" \notin BatchTypes

C9_Witness_ReadyOnClientSecond ==
    /\ Ticked /\ emitted.ready # <<>>
    /\ emitted.second % ClientPeriod = 0
    /\ emitted.batch # <<>>

\* C10 as claimed: on every tick at which no prediction files exist, the
\* scheduler emits exactly one ClientRequest and no TrainingRequest
C10_ClientOnEveryEmptyTick ==
    (Ticked /\ emitted.no_files) => emitted.batch = <<ClientRequest>>

\* C10 amended: on every tick whose second is a multiple of 59 (second 0)
\* and at which no prediction files exist, the scheduler emits exactly one
\* ClientRequest and no TrainingRequest; on the other ticks it emits no
\* ClientRequest
C10_ClientOnMinuteTick ==
    /\ (Ticked /\ emitted.no_files /\ emitted.second % ClientPeriod = 0)
          => emitted.batch = <<ClientRequest>>
    /\ (Ticked /\ emitted.second % ClientPeriod # 0)
          => "Client" \notin BatchTypes

C10_Witness_IdleMinuteTick ==
    /\ Ticked /\ emitted.no_files
    /\ emitted.second = 0
    /\ emitted.batch = <<ClientRequest>>

====
